---- MODULE Spec2Model ----
(***************************************************************************)
(* Event registration and attendance check-in.                             *)
(*                                                                         *)
(* The store (tables participants and attendance), the three Scanner       *)
(* components found in the sources and the Registration form:              *)
(*   "toggle"   src/src/pages/Scanner.tsx       (check-in / check-out,     *)
(*              QrScanner callback, pause and 3 s restart timer)           *)
(*   "callback" src/src/pages/Registration.tsx:244-513 (insert only,       *)
(*              QrScanner callback, no pause)                              *)
(*   "interval" src/unnamed/part_000            (insert only, 1 s polling) *)
(*                                                                         *)
(* A Scanner is a React function component.  The decode callback handed to *)
(* QrScanner (or to setInterval) is created once per scanning session, so  *)
(* the state it reads (isProcessing, lastScanTime, lastParticipantScanTime)*)
(* is the state of the render in which the session was started: the field  *)
(* "closure" of a decoder.  State writes (setX) go to the live state.      *)
(***************************************************************************)
EXTENDS Integers, Sequences, FiniteSets, TLC

VARIABLES clock, participants, attendance, scanners, form, inbox, mailer, control

vars == <<clock, participants, attendance, scanners, form, inbox, mailer, control>>

(*************************** bounds of the model ***************************)
\* Date.now() when the page is opened: far above both cooldown windows.
Epoch == 100000
\* Decodes delivered to the scanner instances in one run.
MaxDecodes == 2
\* Scanning sessions (start requests) of one scanner instance in one run.
MaxStarts == 2
\* Registration submits in one run.
MaxSubmits == 2
\* Requests the send-qr-email function serves in one run.
MaxRequests == 3
\* Times the Control Panel page is opened in one run.
MaxOpens == 2

(**************************** program constants ****************************)
GlobalCooldown == 3000
ParticipantCooldown == 30000
RestartDelay == 3000
SuccessDelay == 2000

\* The instants at which the clock is observed, as offsets from Epoch.
Offsets == {0, 1000, 3000, 30000}
Instants == {Epoch + o : o \in Offsets}

\* SQL NULL for a timestamp column / an absent map entry (JS: undefined, falsy).
Null == 0

\* Identifiers a QR code can carry: two registered, one never registered.
Registered == {"p1", "p2"}
Ids == Registered \cup {"x"}

Variants == {"toggle", "callback", "interval"}
\* Scanner instances (devices) a run may have open.
Insts == {1, 2}
\* Attendance rows a run can create: one per decode.
MaxRecords == MaxDecodes
DbResults == {"ok", "error", "throw"}

(******************************* QR images *********************************)
\* QRCode.toDataURL(id): the image carries the identifier.
QrEncode(id) == <<"data:image/png", id>>
\* What the scanner reads back from an image.
QrDecode(img) == img[2]

(******************************** the store ********************************)
SeedRow(id) ==
  [id |-> id, full_name |-> "seed", email |-> "seed@example.com",
   phone |-> "null", organization |-> "null", qr_code |-> QrEncode(id)]

ParticipantIds == {p.id : p \in participants}

\* Fault injection: the lookup reports a row whenever the call succeeds.
MutSelectParticipant(uuid, r) == r = "ok"
\* .from('participants').select('*').eq('id', uuid).single()
\* data is non-null only when the call succeeds and exactly one row matches.
SelectParticipant(uuid, r) == r = "ok" /\ uuid \in ParticipantIds

\* .from('attendance').select('*').eq('participant_id', uuid).is('check_out', null)
OpenRecords(uuid) ==
  {i \in DOMAIN attendance :
     attendance[i].participant_id = uuid /\ attendance[i].check_out = Null}

\* Fault injection: a unique index allows one open record per participant.
MutInsertAccepted(uuid, r) ==
  /\ r = "ok"
  /\ uuid \in ParticipantIds
  /\ ~\E i \in DOMAIN attendance :
        attendance[i].participant_id = uuid /\ attendance[i].check_out = Null
\* .from('attendance').insert([{ participant_id: uuid }]); the foreign key
\* rejects a participant_id that names no participant.
InsertAccepted(uuid, r) == r = "ok" /\ uuid \in ParticipantIds
\* Fault injection: a participant that has a record gets no second one.
MutInsertAttendance(uuid) ==
  IF \E i \in DOMAIN attendance : attendance[i].participant_id = uuid
    THEN attendance
    ELSE Append(attendance, [participant_id |-> uuid, check_in |-> clock, check_out |-> Null])
InsertAttendance(uuid) ==
  Append(attendance, [participant_id |-> uuid, check_in |-> clock, check_out |-> Null])

\* The place of an attendance row that was deleted: row ids are positions in
\* attendance and are not reused.
Gone == [participant_id |-> "gone", check_in |-> Null, check_out |-> Null]

\* .from('attendance').update({ check_out }).eq('id', id); an id that matches
\* no row changes nothing and is no error.
UpdateAttendance(id, at) ==
  IF attendance[id] = Gone THEN attendance ELSE [attendance EXCEPT ![id].check_out = at]

\* Fault injection: the foreign key is declared without ON DELETE CASCADE
\* and is not enforced on delete.
MutCascade(u) == attendance
\* ON DELETE CASCADE: the attendance rows of a deleted participant go with it.
Cascade(u) ==
  [i \in DOMAIN attendance |->
     IF attendance[i].participant_id = u THEN Gone ELSE attendance[i]]

\* DELETE FROM participants WHERE id = u, which the table's policy allows to
\* any client of the store.
DeleteParticipant(u) ==
  /\ u \in ParticipantIds
  /\ participants' = {p \in participants : p.id # u}
  /\ attendance' = Cascade(u)
  /\ UNCHANGED <<clock, scanners, form, inbox, mailer, control>>


(*********************** the send-qr-email function ************************)
Methods == {"OPTIONS", "POST"}

\* How the call to the e-mail provider can end: the provider accepts the
\* message (2xx, JSON body), rejects it (4xx/5xx, JSON error body), answers with
\* an error page that is not JSON, or cannot be reached (fetch rejects).
ProviderResults == {"accepted", "rejected", "notJson", "unreachable"}

\* The function before its first request.
MailerInit ==
  [pc |-> "idle",             \* where the handler is suspended
   method |-> "none",         \* req.method of the request being handled
   delivered |-> 0,           \* messages the provider accepted
   served |-> <<>>]           \* the responses returned, in order

\* new Response(body, { status }) as the caller sees it; provider is how the
\* provider call of that request ended, "none" when none was made.
Respond(m, provider, status, success) ==
  [m EXCEPT !.pc = "idle",
            !.served = Append(@, [method |-> m.method, provider |-> provider,
                                  status |-> status, success |-> success])]

(*************************** the Control Panel *****************************)
Formats == {"csv", "xlsx", "pdf"}
NoFile == [name |-> <<"none">>, href |-> <<>>, rows |-> {}]

\* useState initial values of a freshly mounted Control page, whose mount
\* effect has called fetchData.
ControlInit ==
  [isLoading |-> TRUE, participants |-> {}, attendance |-> <<>>,
   pc |-> "participants",     \* the query fetchData awaits
   participantsData |-> {},   \* local of the running fetchData
   failedAt |-> "none",       \* the query of this load that failed
   toast |-> "none",
   file |-> NoFile,           \* the last file handed to the browser
   opens |-> 1]

(************************** the Scanner component **************************)
RemoveAt(seq, i) == SubSeq(seq, 1, i - 1) \o SubSeq(seq, i + 1, Len(seq))

\* useState initial values of a freshly mounted Scanner.
ScannerInit(v) ==
  [variant |-> v,
   isScanning |-> FALSE, isProcessing |-> FALSE, hasPermission |-> "null",
   scanSuccess |-> FALSE, lastScanTime |-> 0,
   lastParticipantScanTime |-> [u \in Ids |-> Null],
   qrScannerRef |-> 0,        \* index into decoders, 0 for null
   mounted |-> TRUE,          \* the component is on the page
   streamRef |-> FALSE,       \* streamRef.current holds a live stream
   leaked |-> 0,              \* live getUserMedia streams nothing refers to
   decoders |-> <<>>,         \* QrScanner objects / polling intervals created
   pendingStarts |-> <<>>,    \* start requests awaiting getUserMedia
   starts |-> 0,              \* start requests made
   handlers |-> <<>>,         \* handleScannedUUID calls suspended at an await
   successTimers |-> {},      \* deadlines of setTimeout(setScanSuccess(false))
   toast |-> "none",          \* the last toast shown
   history |-> <<>>]          \* outcome of every decode delivered, in order

\* The state a function created during the current render closes over.
Closure(sc) ==
  [isProcessing |-> sc.isProcessing, lastScanTime |-> sc.lastScanTime,
   lastParticipantScanTime |-> sc.lastParticipantScanTime]

\* What the decode callback of decoder q reads as isProcessing, lastScanTime and
\* lastParticipantScanTime: the values of the render that created the callback.
Seen(sc, q) == sc.decoders[q].closure

\* videoRef.current is set: the <video> element is always rendered by the
\* QrScanner variants, only while isScanning by the polling variant, and by
\* neither once the component is unmounted.
VideoMounted(sc) == sc.mounted /\ (IF sc.variant = "interval" THEN sc.isScanning ELSE TRUE)

NewDecoder(c) == [closure |-> c, active |-> TRUE, destroyed |-> FALSE, restartAt |-> 0]

\* Outcomes that show a toast (the toast is named after the outcome).
Toasting == {"recent", "invalid", "entrada", "salida", "registrado", "writeError", "exception"}
\* Outcomes in which an attendance row was inserted or updated.
Recorded == {"entrada", "salida", "registrado"}

Shown(sc, outcome) == IF outcome \in Toasting THEN [sc EXCEPT !.toast = outcome] ELSE sc

Logged(sc, u, now, dup, hadOpen, outcome) ==
  [Shown(sc, outcome) EXCEPT !.history =
     Append(@, [uuid |-> u, at |-> now, dup |-> dup, hadOpen |-> hadOpen, outcome |-> outcome])]

\* setTimeout(() => qrScanner.start(), 3000) of the toggle variant's callback.
RestartLater(sc, q) == [sc EXCEPT !.decoders[q].restartAt = clock + RestartDelay]

NewHandler(u, now, q, dup) ==
  [uuid |-> u, now |-> now, pc |-> "lookup", decoder |-> q, dup |-> dup,
   target |-> 0, outAt |-> 0, hadOpen |-> FALSE]

\* now - lastScanTime < 3000
InGlobalCooldown(c, now) == now - c.lastScanTime < GlobalCooldown

\* lastParticipantScanTime[uuid] && now - lastParticipantScanTime[uuid] < 30000
InParticipantCooldown(c, u, now) ==
  /\ c.lastParticipantScanTime[u] # Null
  /\ now - c.lastParticipantScanTime[u] < ParticipantCooldown

\* Scanner.tsx: the QrScanner callback and handleScannedUUID up to its first await.
ToggleDecode(sc, q, u, now, dup) ==
  LET c == Seen(sc, q)
      paused == [sc EXCEPT !.decoders[q].active = FALSE]
  IN IF c.isProcessing
       THEN Logged(sc, u, now, dup, FALSE, "ignored")
     ELSE IF InGlobalCooldown(c, now)
       THEN RestartLater(Logged(paused, u, now, dup, FALSE, "cooldown"), q)
     ELSE IF InParticipantCooldown(c, u, now)
       THEN RestartLater(Logged(paused, u, now, dup, FALSE, "recent"), q)
     ELSE [paused EXCEPT !.isProcessing = TRUE, !.scanSuccess = FALSE,
                         !.handlers = Append(@, NewHandler(u, now, q, dup))]

\* Registration.tsx:310,331-352: isProcessing is set before the cooldown checks
\* and the early returns do not reset it.
CallbackDecode(sc, q, u, now, dup) ==
  LET c == Seen(sc, q)
      entered == [sc EXCEPT !.isProcessing = TRUE, !.scanSuccess = FALSE]
  IN IF c.isProcessing
       THEN Logged(sc, u, now, dup, FALSE, "ignored")
     ELSE IF InGlobalCooldown(c, now)
       THEN Logged(entered, u, now, dup, FALSE, "cooldown")
     ELSE IF InParticipantCooldown(c, u, now)
       THEN Logged(entered, u, now, dup, FALSE, "recent")
     ELSE [entered EXCEPT !.handlers = Append(@, NewHandler(u, now, q, dup))]

\* part_000: scanQRCode (run by the interval) and handleScannedUUID up to its
\* first await.
IntervalDecode(sc, q, u, now, dup) ==
  LET c == Seen(sc, q)
      entered == [sc EXCEPT !.isProcessing = TRUE, !.scanSuccess = FALSE]
  IN IF ~VideoMounted(sc) \/ c.isProcessing
       THEN Logged(sc, u, now, dup, FALSE, "ignored")
     ELSE IF InGlobalCooldown(c, now)
       THEN Logged(entered, u, now, dup, FALSE, "cooldown")
     ELSE IF InParticipantCooldown(c, u, now)
       THEN Logged(entered, u, now, dup, FALSE, "recent")
     ELSE [entered EXCEPT !.handlers = Append(@, NewHandler(u, now, q, dup))]

\* The end of handleScannedUUID after its database phase: every such path resets
\* isProcessing; the toggle variant's callback then arms the restart timer.
Finish(sc, i, outcome) ==
  LET h == sc.handlers[i]
      done == [Logged(sc, h.uuid, h.now, h.dup, h.hadOpen, outcome) EXCEPT
                 !.handlers = RemoveAt(@, i), !.isProcessing = FALSE]
  IN IF sc.variant = "toggle" THEN RestartLater(done, h.decoder) ELSE done

\* Fault injection: the scan time is recorded although the write failed.
MutWriteFailed(sc, i) ==
  Finish([sc EXCEPT !.lastScanTime = sc.handlers[i].now], i, "writeError")
\* if (updateError) / if (insertError): the error toast and return, before
\* "Update scan times".
WriteFailed(sc, i) == Finish(sc, i, "writeError")

\* Fault injection: the participant's time is stored in a fresh map instead of
\* the functional update {...prev, [uuid]: now}.
MutSucceed(sc, i, outcome) ==
  LET h == sc.handlers[i]
  IN Finish([sc EXCEPT !.lastScanTime = h.now,
                       !.lastParticipantScanTime =
                          [u \in DOMAIN @ |-> IF u = h.uuid THEN h.now ELSE Null],
                       !.scanSuccess = TRUE,
                       !.successTimers = @ \cup {clock + SuccessDelay}],
            i, outcome)
\* "Update scan times" and "Show success animation".
Succeed(sc, i, outcome) ==
  LET h == sc.handlers[i]
  IN Finish([sc EXCEPT !.lastScanTime = h.now,
                       !.lastParticipantScanTime[h.uuid] = h.now,
                       !.scanSuccess = TRUE,
                       !.successTimers = @ \cup {clock + SuccessDelay}],
            i, outcome)


(************************* the Registration form ***************************)
\* Identifiers crypto.randomUUID() can return.
FreshIds == {"n1", "n2", "n3"}

\* What a user can type into a form that passes validation (fullName and email
\* required); an optional field left empty is "".
FormData ==
  [fullName : {"Ana Gomez"}, email : {"ana@example.com"},
   phone : {"", "555"}, organization : {"", "HGM"}]
EmptyForm == [fullName |-> "", email |-> "", phone |-> "", organization |-> ""]

\* Fault injection: the empty string is stored as it is.
MutOrNull(v) == v
\* data.phone || null
OrNull(v) == IF v = "" THEN "null" ELSE v

\* The row onSubmit inserts.
NewRow(id, data, qr) ==
  [id |-> id, full_name |-> data.fullName, email |-> data.email,
   phone |-> OrNull(data.phone), organization |-> OrNull(data.organization),
   qr_code |-> qr]

NoRow == [id |-> "null"]

\* useState / useForm initial values of the Registration page.
FormInit ==
  [isLoading |-> FALSE, qrCodeUrl |-> <<>>, participantData |-> NoRow,
   values |-> EmptyForm,      \* the form's field values
   pc |-> "idle",             \* where onSubmit is suspended
   participantId |-> "null", qrCodeDataUrl |-> <<>>, data |-> EmptyForm,
   participant |-> NoRow,     \* locals of the running onSubmit
   emailResult |-> "none",    \* how the last email request ended
   toast |-> "none", submits |-> 0]

\* qrCodeUrl && participantData: the page shows the QR image instead of the form.
ShowsQr(f) == f.qrCodeUrl # <<>> /\ f.participantData # NoRow

RegFrame(f) ==
  /\ form' = f
  /\ UNCHANGED <<clock, attendance, scanners, mailer, control>>

\* Fault injection: onSubmit without its finally block.
MutRegFailed(f) == [f EXCEPT !.toast = "failed", !.pc = "idle"]
\* onSubmit's catch and finally.
RegFailed(f) == [f EXCEPT !.toast = "failed", !.isLoading = FALSE, !.pc = "idle"]

\* The submit button (disabled while isLoading) with valid data: onSubmit up to
\* its await of QRCode.toDataURL.
Submit(data, id) ==
  /\ ~ShowsQr(form)
  /\ ~form.isLoading
  /\ form.submits < MaxSubmits
  /\ id \notin ParticipantIds
  /\ RegFrame([form EXCEPT !.isLoading = TRUE, !.values = data, !.data = data,
                           !.participantId = id, !.pc = "qr", !.submits = @ + 1,
                           !.emailResult = "none"])
  /\ UNCHANGED <<participants, inbox>>

\* QRCode.toDataURL returns; the participant insert is issued.
QrReturns(ok) ==
  /\ form.pc = "qr"
  /\ RegFrame(IF ok THEN [form EXCEPT !.qrCodeDataUrl = QrEncode(form.participantId),
                                      !.pc = "insert"]
              ELSE RegFailed(form))
  /\ UNCHANGED <<participants, inbox>>

\* The email request: supabase.functions.invoke('send-qr-email', { body }).
EmailRequest(f) ==
  [email |-> f.data.email, fullName |-> f.data.fullName, qrCodeDataUrl |-> f.qrCodeDataUrl]

\* Fault injection: the insert's error is not read.
MutInsertFailed(r) == FALSE
\* if (error) throw new Error(...); a rejected call reaches the same catch.
InsertFailed(r) == r # "ok"

\* The participant insert returns; on success the email request is issued.  The
\* store holds the row, and data is the row, only when the insert succeeded.
ParticipantInsertReturns(r) ==
  LET row == NewRow(form.participantId, form.data, form.qrCodeDataUrl)
  IN /\ form.pc = "insert"
     /\ participants' = IF r = "ok" THEN participants \cup {row} ELSE participants
     /\ IF InsertFailed(r)
          THEN /\ RegFrame(RegFailed(form))
               /\ UNCHANGED inbox
          ELSE /\ inbox' = Append(inbox, EmailRequest(form))
               /\ RegFrame([form EXCEPT !.participant = IF r = "ok" THEN row ELSE NoRow,
                                        !.pc = "email"])

\* The tail of onSubmit's try block: show the QR code and reset the form.
Completed(f, toast) ==
  [f EXCEPT !.toast = toast, !.qrCodeUrl = f.qrCodeDataUrl,
            !.participantData = f.participant, !.values = EmptyForm,
            !.isLoading = FALSE, !.pc = "idle"]

\* The email request returns (a result with or without error) or throws.
EmailReturns(r) ==
  /\ form.pc = "email"
  /\ RegFrame([(IF r = "throw" THEN RegFailed(form)
                ELSE IF r = "error" THEN Completed(form, "successEmailIssue")
                ELSE Completed(form, "success"))
               EXCEPT !.emailResult = r])
  /\ UNCHANGED <<participants, inbox>>

\* "Register another participant".
StartNewRegistration ==
  /\ ShowsQr(form)
  /\ RegFrame([form EXCEPT !.qrCodeUrl = <<>>, !.participantData = NoRow])
  /\ UNCHANGED <<participants, inbox>>

InitRegistration ==
  /\ clock = Epoch
  /\ participants = {}
  /\ attendance = <<>>
  /\ scanners = <<>>
  /\ form = FormInit
  /\ inbox = <<>>
  /\ mailer = MailerInit
  /\ control = ControlInit

NextRegistration ==
  \/ \E data \in FormData, id \in FreshIds : Submit(data, id)
  \/ \E ok \in BOOLEAN : QrReturns(ok)
  \/ \E r \in DbResults : ParticipantInsertReturns(r)
  \/ \E r \in DbResults : EmailReturns(r)
  \/ StartNewRegistration

SpecRegistration == InitRegistration /\ [][NextRegistration]_vars

(**************************** scanner: actions *****************************)
Frame(s, sc) ==
  /\ scanners' = [scanners EXCEPT ![s] = sc]
  /\ UNCHANGED <<clock, participants, form, inbox, mailer, control>>

\* The start button (shown while ~isScanning): startScanning / startCamera up to
\* its await of getUserMedia.  The functions of the current render go with it.
StartScanning(s) ==
  LET sc == scanners[s]
  IN /\ s \in DOMAIN scanners
     /\ sc.mounted
     /\ ~sc.isScanning
     /\ sc.starts < MaxStarts
     /\ IF sc.variant # "interval" /\ ~VideoMounted(sc)
          THEN Frame(s, sc)
          ELSE Frame(s, [sc EXCEPT !.starts = @ + 1,
                                   !.pendingStarts = Append(@, Closure(sc))])
     /\ UNCHANGED attendance

\* scanQRCode after getUserMedia resolved, then the rest of startScanning.  The
\* stream getUserMedia resolved with is dropped (QrScanner.start() opens its
\* own); new QrScanner(null, ...) throws once the component is unmounted.
QrStartGranted(sc, c) ==
  LET got == [sc EXCEPT !.leaked = @ + 1]
  IN IF VideoMounted(sc)
       THEN [got EXCEPT !.hasPermission = "true",
                        !.decoders = Append(@, NewDecoder(c)),
                        !.qrScannerRef = Len(sc.decoders) + 1,
                        !.isScanning = TRUE,
                        !.toast = "activated"]
       ELSE [got EXCEPT !.toast = "cameraRequired"]

\* getUserMedia rejected: scanQRCode's catch, then startScanning's catch.
QrStartDenied(sc) ==
  [sc EXCEPT !.hasPermission = "false", !.isScanning = FALSE, !.toast = "cameraRequired"]

\* part_000 startCamera after getUserMedia resolved; when isScanning turns true the
\* effect creates the polling interval with the functions of that render.
\* The stream is kept (video.srcObject, streamRef) only if videoRef.current is
\* set; otherwise nothing refers to it.
IntervalStartGranted(sc) ==
  IF VideoMounted(sc)
    THEN [sc EXCEPT !.isScanning = TRUE,
                    !.streamRef = TRUE,
                    !.leaked = IF sc.streamRef THEN @ + 1 ELSE @,
                    !.decoders = Append(@, NewDecoder(Closure(sc))),
                    !.qrScannerRef = Len(sc.decoders) + 1]
    ELSE [sc EXCEPT !.leaked = @ + 1]

IntervalStartDenied(sc) == [sc EXCEPT !.toast = "cameraError"]

CameraAnswers(s, granted) ==
  LET sc == scanners[s]
      c == Head(sc.pendingStarts)
      rest == [sc EXCEPT !.pendingStarts = Tail(@)]
  IN /\ s \in DOMAIN scanners
     /\ sc.pendingStarts # <<>>
     /\ Frame(s, IF sc.variant = "interval"
                   THEN IF granted THEN IntervalStartGranted(rest) ELSE IntervalStartDenied(rest)
                   ELSE IF granted THEN QrStartGranted(rest, c) ELSE QrStartDenied(rest))
     /\ UNCHANGED attendance

\* The stop button (shown while isScanning): stopScanning / stopCamera.
StopRecord(sc) ==
  IF sc.variant = "interval"
    THEN [sc EXCEPT !.isScanning = FALSE,
                    !.streamRef = FALSE,
                    !.decoders = [q \in DOMAIN @ |-> [@[q] EXCEPT !.active = FALSE, !.destroyed = TRUE]],
                    !.qrScannerRef = 0]
  ELSE IF sc.qrScannerRef # 0
    THEN [sc EXCEPT !.decoders[sc.qrScannerRef].active = FALSE,
                    !.decoders[sc.qrScannerRef].destroyed = TRUE,
                    !.qrScannerRef = 0,
                    !.isScanning = FALSE,
                    !.toast = "stopped"]
  ELSE sc

StopScanning(s) ==
  /\ s \in DOMAIN scanners
  /\ scanners[s].mounted
  /\ scanners[s].isScanning
  /\ Frame(s, StopRecord(scanners[s]))
  /\ UNCHANGED attendance

\* The page is left: the effect cleanups run (stop and destroy what
\* qrScannerRef holds, then stopScanning / stopCamera), the <video> element and
\* the component's state go away.  Pending getUserMedia calls, handlers awaiting
\* the database and timers are not cancelled.
Unmount(s) ==
  /\ s \in DOMAIN scanners
  /\ scanners[s].mounted
  /\ Frame(s, [StopRecord(scanners[s]) EXCEPT !.mounted = FALSE, !.isScanning = FALSE])
  /\ UNCHANGED attendance

\* Decodes delivered so far, to all scanner instances.
DecodesOf(s) ==
  IF s \in DOMAIN scanners THEN Len(scanners[s].history) + Len(scanners[s].handlers) ELSE 0
TotalDecodes == DecodesOf(1) + DecodesOf(2)

\* A QR code carrying u is decoded by the active decoder q of scanner s.
Decode(s, q, u) ==
  LET sc == scanners[s]
      now == clock
      dup == InParticipantCooldown(Closure(sc), u, now)
  IN /\ s \in DOMAIN scanners
     /\ q \in DOMAIN sc.decoders
     /\ sc.decoders[q].active
     /\ TotalDecodes < MaxDecodes
     /\ Frame(s, CASE sc.variant = "toggle" -> ToggleDecode(sc, q, u, now, dup)
                   [] sc.variant = "callback" -> CallbackDecode(sc, q, u, now, dup)
                   [] sc.variant = "interval" -> IntervalDecode(sc, q, u, now, dup))
     /\ UNCHANGED attendance

\* The participant lookup returns to handler i.
LookupReturns(s, i, r) ==
  LET sc == scanners[s]
      h == sc.handlers[i]
  IN /\ s \in DOMAIN scanners
     /\ i \in DOMAIN sc.handlers
     /\ h.pc = "lookup"
     /\ Frame(s, IF r = "throw" THEN Finish(sc, i, "exception")
                 ELSE IF ~SelectParticipant(h.uuid, r)
                   THEN Finish([sc EXCEPT !.lastScanTime = h.now], i, "invalid")
                 ELSE [sc EXCEPT !.handlers[i].pc =
                                    IF sc.variant = "toggle" THEN "open" ELSE "insert"])
     /\ UNCHANGED attendance

\* What the open-record query hands back as latest[0]: with limit(1) and no order,
\* any open record; none (0) when there is none or, the error not being read,
\* when the query failed.
Latest(uuid, r) == IF r = "ok" /\ OpenRecords(uuid) # {} THEN OpenRecords(uuid) ELSE {0}

\* Toggle variant: the open-record query returns to handler i.
OpenReturns(s, i, r, k) ==
  LET sc == scanners[s]
      h == sc.handlers[i]
      open == OpenRecords(h.uuid) # {}
  IN /\ s \in DOMAIN scanners
     /\ i \in DOMAIN sc.handlers
     /\ h.pc = "open"
     /\ k \in Latest(h.uuid, r)
     /\ Frame(s, IF r = "throw" THEN Finish(sc, i, "exception")
                 ELSE IF k # 0
                   THEN [sc EXCEPT !.handlers[i].pc = "update", !.handlers[i].target = k,
                                   !.handlers[i].outAt = clock, !.handlers[i].hadOpen = open]
                 ELSE [sc EXCEPT !.handlers[i].pc = "insert", !.handlers[i].hadOpen = open])
     /\ UNCHANGED attendance

\* The attendance insert returns to handler i.
InsertReturns(s, i, r) ==
  LET sc == scanners[s]
      h == sc.handlers[i]
  IN /\ s \in DOMAIN scanners
     /\ i \in DOMAIN sc.handlers
     /\ h.pc = "insert"
     /\ IF r = "throw"
          THEN Frame(s, Finish(sc, i, "exception")) /\ UNCHANGED attendance
        ELSE IF InsertAccepted(h.uuid, r)
          THEN /\ attendance' = InsertAttendance(h.uuid)
               /\ Frame(s, Succeed(sc, i, IF sc.variant = "toggle" THEN "entrada" ELSE "registrado"))
        ELSE Frame(s, WriteFailed(sc, i)) /\ UNCHANGED attendance

\* Toggle variant: the check-out update returns to handler i.
UpdateReturns(s, i, r) ==
  LET sc == scanners[s]
      h == sc.handlers[i]
  IN /\ s \in DOMAIN scanners
     /\ i \in DOMAIN sc.handlers
     /\ h.pc = "update"
     /\ IF r = "throw"
          THEN Frame(s, Finish(sc, i, "exception")) /\ UNCHANGED attendance
        ELSE IF r = "ok"
          THEN /\ attendance' = UpdateAttendance(h.target, h.outAt)
               /\ Frame(s, Succeed(sc, i, "salida"))
        ELSE Frame(s, WriteFailed(sc, i)) /\ UNCHANGED attendance

\* The toggle variant's 3 s timer: qrScanner.start(), which a destroyed QrScanner
\* refuses (the rejection is logged and dropped).
RestartTimer(s, q) ==
  LET sc == scanners[s]
      d == sc.decoders[q]
  IN /\ s \in DOMAIN scanners
     /\ q \in DOMAIN sc.decoders
     /\ d.restartAt # 0
     /\ clock >= d.restartAt
     /\ Frame(s, [sc EXCEPT !.decoders[q].restartAt = 0,
                            !.decoders[q].active = ~d.destroyed])
     /\ UNCHANGED attendance

\* setTimeout(() => setScanSuccess(false), 2000)
SuccessTimer(s, t) ==
  LET sc == scanners[s]
  IN /\ s \in DOMAIN scanners
     /\ t \in sc.successTimers
     /\ clock >= t
     /\ Frame(s, [sc EXCEPT !.successTimers = @ \ {t}, !.scanSuccess = FALSE])
     /\ UNCHANGED attendance

\* Time passes.
Tick(t) ==
  /\ t \in Instants
  /\ t > clock
  /\ clock' = t
  /\ UNCHANGED <<participants, attendance, scanners, form, inbox, mailer, control>>


InitScanner ==
  /\ clock = Epoch
  /\ participants = {SeedRow(id) : id \in Registered}
  /\ attendance = <<>>
  /\ scanners \in [{1} -> {ScannerInit(v) : v \in Variants}]
  /\ form = FormInit
  /\ inbox = <<>>
  /\ mailer = MailerInit
  /\ control = ControlInit

NextScanner ==
  \/ \E t \in Instants : Tick(t)
  \/ \E s \in Insts : StartScanning(s)
  \/ \E s \in Insts, granted \in BOOLEAN : CameraAnswers(s, granted)
  \/ \E s \in Insts : StopScanning(s)
  \/ \E s \in Insts : Unmount(s)
  \/ \E s \in Insts, q \in 1..MaxStarts, u \in Ids : Decode(s, q, u)
  \/ \E s \in Insts, q \in 1..MaxStarts : RestartTimer(s, q)
  \/ \E s \in Insts, i \in 1..MaxDecodes, r \in DbResults : LookupReturns(s, i, r)
  \/ \E s \in Insts, i \in 1..MaxDecodes, r \in DbResults, k \in 0..MaxRecords :
       OpenReturns(s, i, r, k)
  \/ \E s \in Insts, i \in 1..MaxDecodes, r \in DbResults : InsertReturns(s, i, r)
  \/ \E s \in Insts, i \in 1..MaxDecodes, r \in DbResults : UpdateReturns(s, i, r)
  \/ \E s \in Insts, t \in Instants : SuccessTimer(s, t + SuccessDelay)

SpecScanner == InitScanner /\ [][NextScanner]_vars

(*********************** two devices and the store *************************)
\* Two devices run the same scanner page against one store.
InitDevices ==
  /\ clock = Epoch
  /\ participants = {SeedRow(id) : id \in Registered}
  /\ attendance = <<>>
  /\ scanners \in {[s \in Insts |-> ScannerInit(v)] : v \in Variants}
  /\ form = FormInit
  /\ inbox = <<>>
  /\ mailer = MailerInit
  /\ control = ControlInit

\* The devices start and scan while a participant may be deleted from the
\* store.
NextDevices ==
  \/ \E s \in Insts : StartScanning(s)
  \/ \E s \in Insts, granted \in BOOLEAN : CameraAnswers(s, granted)
  \/ \E s \in Insts, q \in 1..MaxStarts, u \in Ids : Decode(s, q, u)
  \/ \E s \in Insts, i \in 1..MaxDecodes, r \in DbResults : LookupReturns(s, i, r)
  \/ \E s \in Insts, i \in 1..MaxDecodes, r \in DbResults, k \in 0..MaxRecords :
       OpenReturns(s, i, r, k)
  \/ \E s \in Insts, i \in 1..MaxDecodes, r \in DbResults : InsertReturns(s, i, r)
  \/ \E s \in Insts, i \in 1..MaxDecodes, r \in DbResults : UpdateReturns(s, i, r)
  \/ \E u \in Registered : DeleteParticipant(u)

SpecDevices == InitDevices /\ [][NextDevices]_vars

(****************** two toggle scanners and a check-out *********************)
\* Two devices open the Scanner page while p1, checked in earlier, has an open
\* attendance record.
InitCheckout ==
  /\ clock = Epoch
  /\ participants = {SeedRow(id) : id \in Registered}
  /\ attendance = <<[participant_id |-> "p1", check_in |-> Epoch, check_out |-> Null]>>
  /\ scanners = [s \in Insts |-> ScannerInit("toggle")]
  /\ form = FormInit
  /\ inbox = <<>>
  /\ mailer = MailerInit
  /\ control = ControlInit

\* The devices start and scan; at some point one second passes.
NextCheckout ==
  \/ \E t \in {Epoch + 1000} : Tick(t)
  \/ \E s \in Insts : StartScanning(s)
  \/ \E s \in Insts, granted \in BOOLEAN : CameraAnswers(s, granted)
  \/ \E s \in Insts, q \in 1..MaxStarts, u \in Ids : Decode(s, q, u)
  \/ \E s \in Insts, i \in 1..MaxDecodes, r \in DbResults : LookupReturns(s, i, r)
  \/ \E s \in Insts, i \in 1..MaxDecodes, r \in DbResults, k \in 0..(MaxRecords + 1) :
       OpenReturns(s, i, r, k)
  \/ \E s \in Insts, i \in 1..MaxDecodes, r \in DbResults : InsertReturns(s, i, r)
  \/ \E s \in Insts, i \in 1..MaxDecodes, r \in DbResults : UpdateReturns(s, i, r)

SpecCheckout == InitCheckout /\ [][NextCheckout]_vars


(********************** send-qr-email: the handler *************************)
MailerFrame(m) ==
  /\ mailer' = m
  /\ UNCHANGED <<clock, participants, attendance, scanners, form, inbox, control>>

\* A request arrives: the OPTIONS answer, or req.json() and the provider call.
Receive(method, jsonOk) ==
  LET m == [mailer EXCEPT !.method = method]
  IN /\ mailer.pc = "idle"
     /\ Len(mailer.served) < MaxRequests
     /\ MailerFrame(IF method = "OPTIONS" THEN Respond(m, "none", 200, FALSE)
                    ELSE IF ~jsonOk THEN Respond(m, "none", 500, FALSE)
                    ELSE [m EXCEPT !.pc = "fetch"])

\* The status and success flag the handler answers with after its provider
\* call: fetch resolves for every HTTP status and emailResponse.ok is not read,
\* so only a rejected fetch or a body that json() cannot parse reaches the catch.
AfterProvider(o) ==
  IF o \in {"unreachable", "notJson"} THEN [status |-> 500, success |-> FALSE]
  ELSE [status |-> 200, success |-> TRUE]

\* The provider call ends.
ProviderAnswers(o) ==
  /\ mailer.pc = "fetch"
  /\ MailerFrame(Respond([mailer EXCEPT !.delivered = IF o = "accepted" THEN @ + 1 ELSE @],
                         o, AfterProvider(o).status, AfterProvider(o).success))

InitMailer ==
  /\ clock = Epoch
  /\ participants = {}
  /\ attendance = <<>>
  /\ scanners = <<>>
  /\ form = FormInit
  /\ inbox = <<>>
  /\ mailer = MailerInit
  /\ control = ControlInit

NextMailer ==
  \/ \E method \in Methods, jsonOk \in BOOLEAN : Receive(method, jsonOk)
  \/ \E o \in ProviderResults : ProviderAnswers(o)

SpecMailer == InitMailer /\ [][NextMailer]_vars

(*********************** Control Panel: the handlers ***********************)
ControlFrame(c) ==
  /\ control' = c
  /\ UNCHANGED <<clock, participants, attendance, scanners, form, inbox, mailer>>

\* fetchData's catch and finally.
LoadFailed(c, at) ==
  [c EXCEPT !.toast = "loadFailed", !.failedAt = at, !.isLoading = FALSE, !.pc = "done"]

\* Fault injection: the queries' errors are not read.
MutQueryFailed(r) == FALSE
\* if (participantsError) throw participantsError; a rejected call reaches
\* the same catch.
QueryFailed(r) == r # "ok"

\* data of a query that did not succeed is null, and null || [] is [].
RowsOrNone(r, rows, none) == IF r = "ok" THEN rows ELSE none

\* The participants query returns.
ParticipantsReturn(r) ==
  /\ control.pc = "participants"
  /\ ControlFrame(IF QueryFailed(r) THEN LoadFailed(control, "participants")
                  ELSE [control EXCEPT !.participantsData = RowsOrNone(r, participants, {}),
                                       !.pc = "attendance"])

\* attendance rows joined with their participant, newest first.
AttendanceView ==
  LET kept == SelectSeq(attendance, LAMBDA a : a # Gone)
      Joined(a) ==
        LET p == CHOOSE row \in participants : row.id = a.participant_id
        IN [participant_id |-> a.participant_id, timestamp |-> a.check_in,
            participants |-> [full_name |-> p.full_name, email |-> p.email,
                              organization |-> p.organization]]
  IN [i \in 1..Len(kept) |-> Joined(kept[Len(kept) + 1 - i])]

\* The attendance query returns; on success both lists are set.
AttendanceReturn(r) ==
  /\ control.pc = "attendance"
  /\ ControlFrame(IF QueryFailed(r) THEN LoadFailed(control, "attendance")
                  ELSE [control EXCEPT !.participants = control.participantsData,
                                       !.attendance = RowsOrNone(r, AttendanceView, <<>>),
                                       !.isLoading = FALSE, !.pc = "done"])

\* p.phone || ''
OrEmpty(v) == IF v = "null" THEN "" ELSE v

\* downloadParticipantQR: a link to the stored image is clicked.
DownloadParticipantQR(id) ==
  /\ ~control.isLoading
  /\ \E p \in control.participants :
       /\ p.id = id
       /\ ControlFrame([control EXCEPT !.file = [name |-> <<"qr", "png">>, href |-> p.qr_code,
                                                 rows |-> {}]])

\* The rows exportParticipantsCSV / Excel / PDF write.
ParticipantsSheet ==
  {[name |-> p.full_name, email |-> p.email, phone |-> OrEmpty(p.phone),
    organization |-> OrEmpty(p.organization)] : p \in control.participants}

\* The rows exportAttendanceCSV / Excel / PDF write.
AttendanceSheet ==
  {[name |-> control.attendance[i].participants.full_name,
    email |-> control.attendance[i].participants.email,
    organization |-> OrEmpty(control.attendance[i].participants.organization),
    time |-> control.attendance[i].timestamp] : i \in DOMAIN control.attendance}

\* Fault injection: exporting the participants also empties the table.
MutExportParticipants(fmt) ==
  /\ ~control.isLoading
  /\ control' = [control EXCEPT !.file = [name |-> <<"participants", fmt>>, href |-> <<>>,
                                          rows |-> ParticipantsSheet]]
  /\ participants' = {}
  /\ UNCHANGED <<clock, attendance, scanners, form, inbox, mailer>>
\* exportParticipantsCSV, exportParticipantsExcel, exportParticipantsPDF
ExportParticipants(fmt) ==
  /\ ~control.isLoading
  /\ ControlFrame([control EXCEPT !.file = [name |-> <<"participants", fmt>>, href |-> <<>>,
                                            rows |-> ParticipantsSheet]])

\* exportAttendanceCSV, exportAttendanceExcel, exportAttendancePDF
ExportAttendance(fmt) ==
  /\ ~control.isLoading
  /\ ControlFrame([control EXCEPT !.file = [name |-> <<"attendance", fmt>>, href |-> <<>>,
                                            rows |-> AttendanceSheet]])

\* The page is left and opened again: new state, and the mount effect calls
\* fetchData.
OpenControl ==
  /\ control.pc = "done"
  /\ control.opens < MaxOpens
  /\ ControlFrame([ControlInit EXCEPT !.opens = control.opens + 1])

\* A scanner somewhere records a check-in of u.
CheckIn(u) ==
  /\ Len(attendance) < MaxRecords
  /\ InsertAccepted(u, "ok")
  /\ attendance' = InsertAttendance(u)
  /\ UNCHANGED <<clock, participants, scanners, form, inbox, mailer, control>>

InitControl ==
  /\ clock = Epoch
  /\ participants = {SeedRow(id) : id \in Registered}
  /\ attendance = <<>>
  /\ scanners = <<>>
  /\ form = FormInit
  /\ inbox = <<>>
  /\ mailer = MailerInit
  /\ control = ControlInit

\* The Control Panel next to a store that other pages change.
NextControl ==
  \/ \E r \in DbResults : ParticipantsReturn(r)
  \/ \E r \in DbResults : AttendanceReturn(r)
  \/ \E id \in Registered : DownloadParticipantQR(id)
  \/ \E fmt \in Formats : ExportParticipants(fmt)
  \/ \E fmt \in Formats : ExportAttendance(fmt)
  \/ OpenControl
  \/ \E u \in Registered : CheckIn(u)
  \/ \E u \in Registered : DeleteParticipant(u)

SpecControl == InitControl /\ [][NextControl]_vars

(********************************* claims **********************************)
Entries(s) == {scanners[s].history[i] : i \in DOMAIN scanners[s].history}
InFlight(s) == {scanners[s].handlers[i] : i \in DOMAIN scanners[s].handlers}
\* Outcomes a failing database call produces.
DbFailures == {"invalid", "writeError", "exception"}

\* C1: a decode of P handled less than 30000 ms after a scan of P was recorded
\* by the same instance (the live lastParticipantScanTime[P] says so when the
\* decode is handled) inserts and updates nothing; stated for the toggle scanner
\* in its first scanning session, where the second scan would be a check-out.
C1_NoRecordInParticipantCooldown ==
  \A s \in DOMAIN scanners :
    (scanners[s].variant = "toggle" /\ Len(scanners[s].decoders) <= 1)
      => \A e \in Entries(s) : e.dup => e.outcome \notin Recorded

\* C2: in the toggle scanner (one instance, one scanning session) no participant
\* has more than one attendance record whose check_out is null, whatever database
\* calls failed.
C2_AtMostOneOpenRecord ==
  \A s \in DOMAIN scanners :
    (scanners[s].variant = "toggle" /\ Len(scanners[s].decoders) <= 1)
      => \A u \in Ids : Cardinality(OpenRecords(u)) <= 1

\* C3: a decode whose identifier matches no row of participants never gets to
\* issue an attendance insert or update, so every attendance row names a
\* participant and no such decode ends as recorded.
C3_UnknownIdNeverRecorded ==
  /\ \A i \in DOMAIN attendance : attendance[i].participant_id \in ParticipantIds
  /\ \A s \in DOMAIN scanners :
       /\ \A e \in Entries(s) : e.uuid \notin ParticipantIds => e.outcome \notin Recorded
       /\ \A h \in InFlight(s) : h.uuid \notin ParticipantIds => h.pc = "lookup"

\* C3 witness: an unregistered identifier was decoded and looked up, after some
\* attendance had been recorded.
C3_Witness ==
  /\ attendance # <<>>
  /\ \E s \in DOMAIN scanners : \E e \in Entries(s) :
       e.uuid \notin ParticipantIds /\ e.outcome = "invalid"

\* C4: in the toggle scanner a recorded scan is a check-out (salida) exactly when
\* the participant had an open record when the scanner asked for it, and a
\* check-in (entrada) exactly when it had none.
C4_ToggleFollowsOpenRecord ==
  \A s \in DOMAIN scanners : \A e \in Entries(s) :
    (scanners[s].variant = "toggle" /\ e.outcome \in Recorded)
      => (e.outcome = "salida" <=> e.hadOpen)

\* C5: when a registered identifier is decoded again within 2 seconds of a
\* decode of it that was recorded, the second decode (not discarded as
\* re-entrant, no database failure) records nothing and ends with the
\* "recently scanned" warning.
C5_SecondDecodeWarned ==
  \A s \in DOMAIN scanners :
    \A i, j \in DOMAIN scanners[s].history :
      LET a == scanners[s].history[i]
          b == scanners[s].history[j]
      IN (/\ i < j
          /\ a.uuid = b.uuid
          /\ a.uuid \in ParticipantIds
          /\ a.outcome \in Recorded
          /\ b.at >= a.at
          /\ b.at - a.at <= 2000
          /\ b.outcome \notin DbFailures \cup {"ignored"})
         => b.outcome = "recent"

\* C6: once the participant row is persisted, a failing email request (an error
\* result or a thrown call) still ends onSubmit with the QR code and participant
\* shown and with the "email could not be sent" message, never the failure one.
C6_EmailFailureIsSoft ==
  [][(form.pc = "email" /\ form'.pc = "idle" /\ form'.emailResult # "ok")
       => (ShowsQr(form') /\ form'.toast = "successEmailIssue")]_vars

\* C7: when the participant insert fails (no row is stored) onSubmit aborts: no
\* email request is made, qrCodeUrl and participantData keep their values, the
\* form keeps its values, and the failure message is shown; and every email
\* request made carries the QR image of a stored participant.
C7_InsertFailureAborts ==
  /\ [][(form.pc = "insert" /\ form'.pc # "insert" /\ participants' = participants)
          => /\ inbox' = inbox
             /\ form'.qrCodeUrl = form.qrCodeUrl
             /\ form'.participantData = form.participantData
             /\ form'.values = form.values
             /\ form'.values # EmptyForm
             /\ form'.toast = "failed"
             /\ form'.pc = "idle"]_vars
  /\ [](\A i \in DOMAIN inbox : \E row \in participants :
          row.qr_code = inbox[i].qrCodeDataUrl /\ row.email = inbox[i].email)

\* C7 witness: the first submit got its QR image and then failed at the insert.
C7_Witness ==
  /\ form.submits = 1 /\ form.pc = "idle" /\ form.toast = "failed"
  /\ form.qrCodeDataUrl = QrEncode(form.participantId)
  /\ participants = {} /\ inbox = <<>>
  /\ form.values = form.data /\ ~ShowsQr(form)

\* C8: whenever the QR image is displayed, the store holds a participant row
\* whose id is the identifier the image encodes, whose qr_code is the image and
\* whose fields are the submitted values, empty optional fields as null.
C8_DisplayedQrIsStored ==
  ShowsQr(form) =>
    \E row \in participants :
      /\ row.id = QrDecode(form.qrCodeUrl)
      /\ row.qr_code = form.qrCodeUrl
      /\ row.full_name = form.data.fullName
      /\ row.email = form.data.email
      /\ row.phone = (IF form.data.phone = "" THEN "null" ELSE form.data.phone)
      /\ row.organization =
           (IF form.data.organization = "" THEN "null" ELSE form.data.organization)
      /\ row = form.participantData

\* C8 witness: a QR image is displayed for a submit that left phone empty and
\* gave an organization.
C8_Witness ==
  /\ ShowsQr(form)
  /\ form.data.phone = "" /\ form.data.organization # ""
  /\ form.participantData.phone = "null"

\* C9: at most one decode is being processed per scanner instance at any time.
C9_OneDecodeInFlight ==
  \A s \in DOMAIN scanners : Len(scanners[s].handlers) <= 1

\* C10: once no decode is being handled any more, isProcessing is false again,
\* whatever the outcomes were.
C10_ProcessingEnds ==
  \A s \in DOMAIN scanners : scanners[s].handlers = <<>> => ~scanners[s].isProcessing

\* QrScanner objects (polling intervals) of a component that are capturing.
ActiveDecoders(sc) == {q \in DOMAIN sc.decoders : sc.decoders[q].active}
\* Live streams a component obtained from getUserMedia.
Held(sc) == sc.leaked + (IF sc.streamRef THEN 1 ELSE 0)

\* C11: after a stop or an unmount that released the scanner (qrScannerRef is
\* null again) and with no start request pending, the scanner is idle and no
\* decoder of the component is capturing, whatever timers and handlers were
\* still running.
C11_IdleAfterStop ==
  \A s \in DOMAIN scanners :
    LET sc == scanners[s]
    IN (sc.qrScannerRef = 0 /\ sc.decoders # <<>> /\ sc.pendingStarts = <<>>)
         => (~sc.isScanning /\ ActiveDecoders(sc) = {})

\* C12: no stream obtained from getUserMedia is live without a reference through
\* which stop or unmount releases it.
C12_NoStreamLeft ==
  \A s \in DOMAIN scanners : scanners[s].leaked = 0

\* C13: at most one QrScanner (polling interval) of a component captures at any
\* time.
C13_OneActiveCapture ==
  \A s \in DOMAIN scanners : Cardinality(ActiveDecoders(scanners[s])) <= 1

\* C14: when the camera answers the first start request of a mounted scanner,
\* a grant makes it active (isScanning, a capturing decoder held by the
\* component) and a denial leaves it idle with an error message.
C14_GrantActivates ==
  [][\A s \in DOMAIN scanners :
       LET a == scanners[s]
           b == scanners'[s]
       IN (a.mounted /\ a.starts = 1 /\ Len(a.pendingStarts) = 1 /\ b.pendingStarts = <<>>)
            => IF Held(b) > Held(a)
                 THEN /\ b.isScanning
                      /\ b.qrScannerRef # 0
                      /\ b.decoders[b.qrScannerRef].active
                 ELSE /\ ~b.isScanning
                      /\ ActiveDecoders(b) = {}
                      /\ b.toast \in {"cameraRequired", "cameraError"}]_vars

\* Attendance rows that reference participant u.
RowsOf(u) == {i \in DOMAIN attendance : attendance[i].participant_id = u}
\* Decodes of u that scanner sc ended as recorded.
RecordedScans(sc, u) ==
  {j \in DOMAIN sc.history : sc.history[j].uuid = u /\ sc.history[j].outcome \in Recorded}

\* C15: in the simple variants a scan of a registered participant that passes
\* both cooldown checks goes from the lookup straight to one attendance insert
\* (no open-record query, no update); every recorded scan has added exactly one
\* row that references its participant, whatever rows the participant had, and
\* a scan that passed the checks and met no database failure is recorded.
C15_SimpleScanInsertsOne ==
  \A s \in DOMAIN scanners :
    LET sc == scanners[s]
    IN sc.variant # "toggle" =>
         /\ \A u \in Ids : Cardinality(RowsOf(u)) = Cardinality(RecordedScans(sc, u))
         /\ \A i \in DOMAIN attendance : attendance[i].check_out = Null
         /\ \A h \in InFlight(s) : h.pc \in {"lookup", "insert"}
         /\ \A e \in Entries(s) :
              (e.uuid \in ParticipantIds
                 /\ e.outcome \notin {"ignored", "cooldown", "recent"} \cup DbFailures)
                => e.outcome = "registrado"

\* C15 witness: a simple scanner recorded a second scan of a participant that
\* already had a record, and the participant has two records.
C15_Witness ==
  \E s \in DOMAIN scanners :
    /\ scanners[s].variant # "toggle"
    /\ Cardinality(RowsOf("p1")) = 2
    /\ Cardinality(RecordedScans(scanners[s], "p1")) = 2
    /\ scanners[s].handlers = <<>>

\* Decodes of u that scanner s ended as an inserted record.
Inserted(s, u) ==
  Cardinality({j \in DOMAIN scanners[s].history :
                 /\ scanners[s].history[j].uuid = u
                 /\ scanners[s].history[j].outcome \in {"entrada", "registrado"}})
\* Decodes of u that some scanner ended as a check-out.
CheckedOut(u) ==
  \E s \in DOMAIN scanners : \E e \in Entries(s) : e.uuid = u /\ e.outcome = "salida"

\* C16: with two devices on one store, an attendance insert issued for an
\* existing participant can always succeed and add a row, whatever rows the
\* other device has added; the participant's rows are the inserts both devices
\* recorded, and until one of them is checked out all of them are open.
C16_StoreAdmitsBothInserts ==
  /\ \A s \in DOMAIN scanners : \A i \in DOMAIN scanners[s].handlers :
       LET h == scanners[s].handlers[i]
       IN (h.pc = "insert" /\ h.uuid \in ParticipantIds)
            => ENABLED (InsertReturns(s, i, "ok") /\ attendance' = InsertAttendance(h.uuid))
  /\ \A u \in ParticipantIds :
       /\ Cardinality(RowsOf(u)) = Inserted(1, u) + Inserted(2, u)
       /\ ~CheckedOut(u) => OpenRecords(u) = RowsOf(u)

\* C16 witness: two toggle devices each decoded p1 once, each found no open
\* record and each recorded a check-in; p1 has two open records.
C16_Witness ==
  /\ \A s \in Insts :
       /\ scanners[s].variant = "toggle"
       /\ Len(scanners[s].history) = 1
       /\ scanners[s].history[1].uuid = "p1"
       /\ scanners[s].history[1].outcome = "entrada"
       /\ ~scanners[s].history[1].hadOpen
  /\ Cardinality(OpenRecords("p1")) = 2

\* C17: every attendance row names an existing participant, also after inserts
\* for identifiers that are not (or no longer) in participants and after
\* participants were deleted.
C17_AttendanceNamesParticipant ==
  \A i \in DOMAIN attendance :
    attendance[i] # Gone => attendance[i].participant_id \in ParticipantIds

\* C17 witness: p1 was deleted together with its attendance row, and an insert
\* for p1 that a scanner issued after finding p1 ended as an error.
C17_Witness ==
  /\ "p1" \notin ParticipantIds
  /\ \E i \in DOMAIN attendance : attendance[i] = Gone
  /\ \E s \in DOMAIN scanners : \E e \in Entries(s) :
       e.uuid = "p1" /\ e.outcome = "writeError"

\* C18: every response to a request other than OPTIONS is a success (200,
\* success: true) exactly when the provider accepted the message, and has a
\* failure status when the provider call failed or the provider rejected it; a
\* response to OPTIONS was given without a provider call.
C18_ResponseReflectsProvider ==
  \A i \in DOMAIN mailer.served :
    LET e == mailer.served[i]
    IN IF e.method = "OPTIONS" THEN e.provider = "none"
       ELSE /\ (e.status = 200 /\ e.success) <=> e.provider = "accepted"
            /\ e.provider \in ProviderResults \ {"accepted"} => e.status >= 400

\* C19: a load whose participants or attendance query fails ends with the
\* reload message, isLoading false and both displayed lists as they were; the
\* lists are set only by a load whose two queries succeeded, both at once.
C19_FailedLoadKeepsLists ==
  /\ [][(control.pc \in {"participants", "attendance"} /\ control'.pc = "done"
            /\ control'.failedAt # "none")
          => /\ control'.toast = "loadFailed"
             /\ ~control'.isLoading
             /\ control'.participants = control.participants
             /\ control'.attendance = control.attendance]_vars
  /\ [][(control'.participants # control.participants
            \/ control'.attendance # control.attendance)
          => \/ control'.pc = "participants"
             \/ /\ control.pc = "attendance" /\ control'.pc = "done"
                /\ control'.failedAt = "none"
                /\ control'.participants = control.participantsData
                /\ control'.attendance = AttendanceView]_vars
  /\ [](control.failedAt # "none" => control.participants = {} /\ control.attendance = <<>>)

\* C19 witness: the participants query succeeded on a store with participants
\* and attendance, the attendance query failed, and the load is over.
C19_Witness ==
  /\ control.pc = "done" /\ control.failedAt = "attendance"
  /\ control.participantsData # {} /\ attendance # <<>>
  /\ control.participants = {} /\ control.attendance = <<>>
  /\ control.toast = "loadFailed" /\ ~control.isLoading

\* C20: a step of the Control Panel (load, QR download, export) leaves the
\* participants and attendance tables as they are.
C20_ControlWritesNothing ==
  [][control' # control => (participants' = participants /\ attendance' = attendance)]_vars

\* C20 witness: the page loaded participants and attendance, a participant's
\* QR image was downloaded or a list exported, and the store still holds rows.
C20_Witness ==
  /\ control.pc = "done" /\ control.failedAt = "none"
  /\ control.participants # {} /\ control.attendance # <<>>
  /\ control.file.name = <<"participants", "csv">>
  /\ control.file.rows # {}
  /\ participants # {} /\ attendance # <<>>

\* C21: whenever the decoder of the current scanning session can deliver a
\* decode, the isProcessing, lastScanTime and lastParticipantScanTime its
\* callback reads are the component's current ones, as the preceding scans of
\* the session left them.
C21_ChecksReadCurrentState ==
  \A s \in DOMAIN scanners :
    LET sc == scanners[s]
    IN (sc.qrScannerRef # 0 /\ Len(sc.decoders) = 1 /\ sc.decoders[sc.qrScannerRef].active)
         => Seen(sc, sc.qrScannerRef) = Closure(sc)

\* C22: a decode delivered less than 3000 ms after the component's lastScanTime
\* starts no handler (no database call), shows no message and leaves
\* lastScanTime and lastParticipantScanTime as they are.
C22_GlobalCooldownIsNoOp ==
  [][\A s \in DOMAIN scanners :
       LET a == scanners[s]
           b == scanners'[s]
       IN (/\ Len(b.history) + Len(b.handlers) = Len(a.history) + Len(a.handlers) + 1
           /\ clock - a.lastScanTime < GlobalCooldown)
            => /\ b.handlers = a.handlers
               /\ b.toast = a.toast
               /\ b.lastScanTime = a.lastScanTime
               /\ b.lastParticipantScanTime = a.lastParticipantScanTime
               /\ attendance' = attendance]_vars

\* The entry a step of scanner s has just added to its history for a decode
\* that a handler finished, if the step is such a step.
Ended(a, b) ==
  /\ Len(b.history) = Len(a.history) + 1
  /\ Len(b.handlers) = Len(a.handlers) - 1

\* C23: when the lookup of a registered participant does not return its row
\* (the database call failed), the scan ends with the generic error message,
\* not "invalid code", and leaves attendance, lastScanTime and
\* lastParticipantScanTime as they are.
C23_LookupErrorIsGeneric ==
  [][\A s \in DOMAIN scanners :
       LET a == scanners[s]
           b == scanners'[s]
           e == b.history[Len(b.history)]
       IN (Ended(a, b) /\ e.uuid \in ParticipantIds /\ e.outcome \in {"invalid", "exception"})
            => /\ e.outcome = "exception"
               /\ b.toast = "exception"
               /\ b.lastScanTime = a.lastScanTime
               /\ b.lastParticipantScanTime = a.lastParticipantScanTime
               /\ attendance' = attendance]_vars

\* The step of scanner s ends handler i, which was waiting for its attendance
\* insert or update, without having recorded the scan.
WriteEndsBadly(a, b) ==
  /\ Ended(a, b)
  /\ b.history[Len(b.history)].outcome \notin Recorded
  /\ \E i \in DOMAIN a.handlers :
       a.handlers[i].pc \in {"insert", "update"} /\ b.handlers = RemoveAt(a.handlers, i)

\* C24: when the attendance insert or update fails, an error message is shown,
\* the success indicator is not triggered, attendance is unchanged, and neither
\* lastScanTime nor lastParticipantScanTime changes, in the component and in
\* what every decoder's callback reads, so both cooldown checks answer a rescan
\* of the same code as they would have before the failed scan.
C24_FailedWriteKeepsCooldowns ==
  [][\A s \in DOMAIN scanners :
       LET a == scanners[s]
           b == scanners'[s]
           e == b.history[Len(b.history)]
       IN WriteEndsBadly(a, b)
            => /\ e.outcome \in {"writeError", "exception"}
               /\ b.toast = e.outcome
               /\ b.scanSuccess = a.scanSuccess
               /\ b.successTimers = a.successTimers
               /\ attendance' = attendance
               /\ b.lastScanTime = a.lastScanTime
               /\ b.lastParticipantScanTime = a.lastParticipantScanTime
               /\ \A q \in DOMAIN a.decoders, t \in Instants :
                    /\ InGlobalCooldown(Seen(b, q), t) = InGlobalCooldown(Seen(a, q), t)
                    /\ InParticipantCooldown(Seen(b, q), e.uuid, t)
                         = InParticipantCooldown(Seen(a, q), e.uuid, t)]_vars

\* The toggle scanner fails to write p1's scan and records the rescan made when
\* decoding resumes 3 s later.
C24_Witness ==
  \E s \in DOMAIN scanners :
    LET h == scanners[s].history
    IN /\ scanners[s].variant = "toggle"
       /\ Len(h) = 2
       /\ h[1].uuid = "p1" /\ h[1].outcome = "writeError"
       /\ h[2].uuid = "p1" /\ h[2].outcome \in Recorded
       /\ h[2].at - h[1].at = RestartDelay

\* The step of scanner s delivers the answer of the open-record query to
\* handler i: the handler leaves its "open" position or ends.
OpenAnswered(a, b, i) ==
  /\ a.handlers[i].pc = "open"
  /\ \/ Len(b.handlers) = Len(a.handlers) /\ b.handlers[i].pc # "open"
     \/ Ended(a, b) /\ b.handlers = RemoveAt(a.handlers, i)

\* C25: in the toggle scanner, when the query for the participant's open
\* attendance record does not deliver the open record that exists (the query
\* failed), the scan ends there with the error message: the handler goes on to
\* no insert and no update, attendance is unchanged and neither cooldown
\* timestamp changes.
C25_FailedOpenQueryAborts ==
  [][\A s \in DOMAIN scanners :
       LET a == scanners[s]
           b == scanners'[s]
       IN \A i \in DOMAIN a.handlers :
            (/\ a.variant = "toggle"
             /\ OpenAnswered(a, b, i)
             /\ OpenRecords(a.handlers[i].uuid) # {}
             /\ ~(Len(b.handlers) = Len(a.handlers) /\ b.handlers[i].pc = "update"))
              => /\ Ended(a, b)
                 /\ b.history[Len(b.history)].outcome = "exception"
                 /\ b.toast = "exception"
                 /\ b.lastScanTime = a.lastScanTime
                 /\ b.lastParticipantScanTime = a.lastParticipantScanTime
                 /\ attendance' = attendance]_vars

\* The step of scanner s delivers to handler i the answer of the lookup of an
\* identifier that is not among the participants, and the call did not throw.
NotFound(a, b, i) ==
  /\ a.handlers[i].pc = "lookup"
  /\ a.handlers[i].uuid \notin ParticipantIds
  /\ \/ Len(b.handlers) = Len(a.handlers) /\ b.handlers[i].pc # "lookup"
     \/ /\ Ended(a, b) /\ b.handlers = RemoveAt(a.handlers, i)
        /\ b.history[Len(b.history)].outcome # "exception"

\* What the step that reports an identifier as not found does.
ReportsInvalid(a, b) ==
  LET e == b.history[Len(b.history)]
  IN /\ Ended(a, b)
     /\ e.outcome = "invalid"
     /\ b.toast = "invalid"
     /\ b.lastScanTime = e.at
     /\ b.lastParticipantScanTime = a.lastParticipantScanTime
     /\ \A u \in Ids \ ParticipantIds : b.lastParticipantScanTime[u] = Null

\* The step of scanner s delivers a decode less than 3000 ms after the decode
\* of an identifier that was reported invalid.
DecodedAfterInvalid(a, b) ==
  /\ Len(b.history) + Len(b.handlers) = Len(a.history) + Len(a.handlers) + 1
  /\ \E k \in DOMAIN a.history :
       /\ a.history[k].outcome = "invalid"
       /\ clock >= a.history[k].at
       /\ clock - a.history[k].at < GlobalCooldown

\* C26: an identifier that is not found among the participants is reported as
\* "invalid code", lastScanTime becomes the time of that decode,
\* lastParticipantScanTime is unchanged and holds nothing for the identifier,
\* no attendance is written, and a decode delivered less than 3000 ms after
\* that decode starts no handler.
C26_InvalidStartsGlobalCooldown ==
  [][\A s \in DOMAIN scanners :
       LET a == scanners[s]
           b == scanners'[s]
       IN /\ \A i \in DOMAIN a.handlers :
               NotFound(a, b, i) => ReportsInvalid(a, b) /\ attendance' = attendance
          /\ DecodedAfterInvalid(a, b) => b.handlers = a.handlers]_vars

\* C27: the step that records a scan of participant P sets lastScanTime and
\* lastParticipantScanTime[P] to that scan's decode time, leaves the other
\* entries of lastParticipantScanTime as they are, sets the success indicator
\* and arms the timer that clears it 2000 ms later; no other step changes
\* lastParticipantScanTime, and the indicator is never set without a pending
\* timer that clears it.
C27_SuccessUpdatesBothTimes ==
  [][\A s \in DOMAIN scanners :
       LET a == scanners[s]
           b == scanners'[s]
           e == b.history[Len(b.history)]
           recorded == Ended(a, b) /\ e.outcome \in Recorded
       IN /\ recorded
               => /\ b.lastScanTime = e.at
                  /\ b.lastParticipantScanTime = [a.lastParticipantScanTime EXCEPT ![e.uuid] = e.at]
                  /\ b.scanSuccess
                  /\ clock + SuccessDelay \in b.successTimers
          /\ b.lastParticipantScanTime # a.lastParticipantScanTime => recorded
          /\ b.scanSuccess => b.successTimers # {}
          /\ (a.scanSuccess /\ ~b.scanSuccess /\ b.successTimers # a.successTimers)
               => \E t \in a.successTimers : t <= clock /\ b.successTimers = a.successTimers \ {t}]_vars

\* Scans of p1 and then of p2 were recorded, each participant's time is its own
\* scan's and the success indicator has been cleared again.
C27_Witness ==
  \E s \in DOMAIN scanners :
    LET sc == scanners[s]
        h == sc.history
    IN /\ Len(h) = 2
       /\ h[1].uuid = "p1" /\ h[1].outcome \in Recorded
       /\ h[2].uuid = "p2" /\ h[2].outcome \in Recorded
       /\ h[2].at > h[1].at
       /\ sc.lastParticipantScanTime["p1"] = h[1].at
       /\ sc.lastParticipantScanTime["p2"] = h[2].at
       /\ sc.lastScanTime = h[2].at
       /\ ~sc.scanSuccess /\ sc.successTimers = {}

\* The times of the decodes scanner component sc has handed to
\* handleScannedUUID: those still being handled and those that ended, except
\* the ones its decode callback dropped before the handler.
HandedAt(sc) ==
  {sc.handlers[i].now : i \in DOMAIN sc.handlers}
    \cup {sc.history[k].at : k \in {j \in DOMAIN sc.history : sc.history[j].outcome # "ignored"}}

\* C28: in every variant, a scanner delivers no decode less than 3000 ms after
\* a decode it has handed to the handler.
C28_PauseAfterDecode ==
  [][\A s \in DOMAIN scanners :
       LET a == scanners[s]
           b == scanners'[s]
       IN Len(b.history) + Len(b.handlers) = Len(a.history) + Len(a.handlers) + 1
            => \A t \in HandedAt(a) : clock - t >= RestartDelay]_vars

\* C29: no step of a scanner changes an attendance record that has a check-out,
\* and none changes the participant reference or the check-in time of an
\* existing record.
C29_CheckOutSetOnce ==
  [][scanners' # scanners
       => \A i \in DOMAIN attendance :
            /\ i \in DOMAIN attendance'
            /\ attendance'[i].participant_id = attendance[i].participant_id
            /\ attendance'[i].check_in = attendance[i].check_in
            /\ attendance[i].check_out # Null => attendance'[i] = attendance[i]]_vars

\* C30: isLoading is true exactly while onSubmit is in progress; during that
\* time the submit control (disabled={isLoading}) accepts no submit, so no
\* second onSubmit starts; after every outcome isLoading is false again and the
\* form, once it is shown, accepts the next submit.
C30_OneSubmitAtATime ==
  /\ form.isLoading <=> form.pc # "idle"
  /\ form.isLoading => ~ENABLED (\E data \in FormData, id \in FreshIds : Submit(data, id))
  /\ (~form.isLoading /\ ShowsQr(form)) => ENABLED StartNewRegistration
  /\ (~form.isLoading /\ ~ShowsQr(form) /\ form.submits < MaxSubmits)
       => ENABLED (\E data \in FormData, id \in FreshIds : Submit(data, id))

\* A second submit is in progress after the first one failed.
C30_Witness ==
  /\ form.submits = 2
  /\ form.isLoading
  /\ form.pc = "insert"
  /\ form.toast = "failed"

====
